---- MODULE Spec2Model ----
(***************************************************************************)
(* Model of permalink-updater.py: main() reads the rows of a holdings      *)
(* export, extracts the Aleph doc number of each row's URL, asks the FOLIO *)
(* inventory API for the instance id, rewrites the URL as an EDS permalink *)
(* and finally writes output.csv and error_log.txt.                        *)
(*                                                                         *)
(* Python strings are sequences of one-character strings, so that          *)
(* str.find, slicing, str.replace and f-string interpolation are computed  *)
(* character by character.                                                 *)
(***************************************************************************)
EXTENDS Integers, Sequences, FiniteSets, TLC

(***************************************************************************)
(* Bounds of the model.                                                    *)
(***************************************************************************)
MaxRows == 3
MaxTokens == 3
MaxIdLen == 3

(***************************************************************************)
(* String literals of the source.                                          *)
(***************************************************************************)
Marker ==
    <<"d", "o", "c", "_", "n", "u", "m", "b", "e", "r", "=">>

MsgNoDocNumber ==
    <<"C", "o", "u", "l", "d", " ", "n", "o", "t", " ", "f", "i", "n", "d",
      " ", "d", "o", "c", "_", "n", "u", "m", "b", "e", "r", " ", "f", "o",
      "r", " ">>

MsgNoFolioId ==
    <<"C", "o", "u", "l", "d", " ", "n", "o", "t", " ", "f", "i", "n", "d",
      " ", "F", "O", "L", "I", "O", " ", "I", "D", " ", "f", "o", "r", " ">>

MsgSep ==
    <<" ", "-", " ">>

UrlHead ==
    <<"h", "t", "t", "p", "s", ":", "/", "/", "s", "e", "a", "r", "c", "h",
      ".", "e", "b", "s", "c", "o", "h", "o", "s", "t", ".", "c", "o", "m",
      "/", "l", "o", "g", "i", "n", ".", "a", "s", "p", "x", "?", "a", "u",
      "t", "h", "t", "y", "p", "e", "=", "i", "p", ",", "g", "u", "e", "s",
      "t", "&", "c", "u", "s", "t", "i", "d", "=">>

UrlGroup ==
    <<"&", "g", "r", "o", "u", "p", "i", "d", "=">>

UrlProf ==
    <<"&", "p", "r", "o", "f", "i", "d", "=">>

UrlDb ==
    <<"&", "d", "b", "=">>

UrlScope ==
    <<"&", "d", "i", "r", "e", "c", "t", "=", "t", "r", "u", "e", "&", "s",
      "i", "t", "e", "=", "e", "d", "s", "-", "l", "i", "v", "e", "&", "s",
      "c", "o", "p", "e", "=", "s", "i", "t", "e", "&", "A", "N", "=">>

UrlEdge ==
    <<".", "o", "a", "i", ".", "e", "d", "g", "e", ".", "f", "i", "v", "e",
      "c", "o", "l", "l", "e", "g", "e", "s", ".", "f", "o", "l", "i", "o",
      ".", "e", "b", "s", "c", "o", ".", "c", "o", "m", ".", "f", "s", "0",
      "0", "0", "0", "1", "0", "0", "6", ".">>

(***************************************************************************)
(* The values of config.py used by build_permalink (the module is supplied *)
(* by the operator; these are sample values).                              *)
(***************************************************************************)
eds_customer_id == <<"s", "1">>
eds_group_id == <<"m", "a", "i", "n">>
eds_profile_id == <<"e", "d", "s">>
eds_catalog_id == <<"c", "a", "t">>
school_code == <<"m", "h", "f">>

(***************************************************************************)
(* Python string primitives.                                               *)
(***************************************************************************)
\* s[b:] with 0 <= b
SliceFrom(s, b) == SubSeq(s, b + 1, Len(s))

\* s starts with sub at 0-based offset k
MatchAt(s, sub, k) ==
    /\ k + Len(sub) <= Len(s)
    /\ \A j \in 1..Len(sub) : s[k + j] = sub[j]

\* str.rfind in place of str.find: the highest offset
StrRFind(s, sub) ==
    LET hits == {k \in 0..(Len(s) - Len(sub)) : MatchAt(s, sub, k)}
    IN  IF hits = {} THEN -1
        ELSE CHOOSE k \in hits : \A h \in hits : k >= h

\* str.find: the lowest 0-based offset where sub occurs, -1 when none
StrFind(s, sub) ==
    LET hits == {k \in 0..(Len(s) - Len(sub)) : MatchAt(s, sub, k)}
    IN  IF hits = {} THEN -1
        ELSE CHOOSE k \in hits : \A h \in hits : k <= h

\* str.replace(old, new, 1): only the first occurrence is replaced
RECURSIVE StrReplaceFirst(_, _, _)
StrReplaceFirst(s, old, new) ==
    IF s = <<>> THEN <<>>
    ELSE IF Head(s) = old THEN <<new>> \o Tail(s)
    ELSE <<Head(s)>> \o StrReplaceFirst(Tail(s), old, new)

\* str.replace(old, new) for one-character old and new
RECURSIVE StrReplace(_, _, _)
StrReplace(s, old, new) ==
    IF s = <<>> THEN <<>>
    ELSE <<IF Head(s) = old THEN new ELSE Head(s)>>
         \o StrReplace(Tail(s), old, new)

(***************************************************************************)
(* Outcome of a call: a returned value or a raised exception.              *)
(***************************************************************************)
Return(v) == [exc |-> "none", val |-> v]
Raise(e) == [exc |-> e, val |-> <<>>]

\* get_doc_number without the test of find's result
get_doc_number_NoCheck(url) ==
    LET doc_num_index == StrFind(url, Marker)
    IN  Return(SliceFrom(url, doc_num_index + Len(Marker)))

(***************************************************************************)
(* get_doc_number(url)                                                     *)
(***************************************************************************)
get_doc_number(url) ==
    LET doc_num_index == StrFind(url, Marker)
    IN  IF doc_num_index = -1
        THEN Raise("IndexError")
        ELSE Return(SliceFrom(url, doc_num_index + Len(Marker)))

(***************************************************************************)
(* A reply of the lookup service to requests.get.  kind says how far the   *)
(* call gets: "ConnectionError" (requests.get raises), "text" (a body      *)
(* that request.json() cannot decode) or "json" (body is the decoded       *)
(* object, a function from keys to values).                                *)
(***************************************************************************)
NoBody == [k \in {} |-> <<>>]
NetworkDown == [kind |-> "ConnectionError", body |-> NoBody]
NotJson == [kind |-> "text", body |-> NoBody]
Json(b) == [kind |-> "json", body |-> b]
Instances(l) == Json([instances |-> l, totalRecords |-> Len(l)])
Match(id) == [id |-> id, source |-> "MARC"]

\* get_folio_id reading the list with a default: .get('instances', [])
get_folio_id_Lenient(reply) ==
    IF reply.kind = "ConnectionError" THEN Raise("ConnectionError")
    ELSE IF reply.kind # "json" THEN Raise("JSONDecodeError")
    ELSE LET request_body == reply.body
             instances == IF "instances" \in DOMAIN request_body
                          THEN request_body["instances"] ELSE <<>>
         IN  IF Len(instances) = 0 THEN Raise("IndexError")
             ELSE IF "id" \notin DOMAIN instances[1] THEN Raise("KeyError")
             ELSE Return(instances[1]["id"])

\* get_folio_id taking the last match: ['instances'][-1]
get_folio_id_Last(reply) ==
    IF reply.kind = "ConnectionError" THEN Raise("ConnectionError")
    ELSE IF reply.kind # "json" THEN Raise("JSONDecodeError")
    ELSE LET request_body == reply.body
         IN  IF "instances" \notin DOMAIN request_body THEN Raise("KeyError")
             ELSE LET instances == request_body["instances"]
                  IN  IF Len(instances) = 0 THEN Raise("IndexError")
                      ELSE IF "id" \notin DOMAIN instances[Len(instances)]
                           THEN Raise("KeyError")
                      ELSE Return(instances[Len(instances)]["id"])

(***************************************************************************)
(* get_folio_id(doc_number), given the reply the service makes to the GET. *)
(***************************************************************************)
get_folio_id(reply) ==
    IF reply.kind = "ConnectionError" THEN Raise("ConnectionError")
    ELSE IF reply.kind # "json" THEN Raise("JSONDecodeError")
    ELSE LET request_body == reply.body
         IN  IF "instances" \notin DOMAIN request_body THEN Raise("KeyError")
             ELSE IF Len(request_body["instances"]) = 0
                  THEN Raise("IndexError")
             ELSE IF "id" \notin DOMAIN request_body["instances"][1]
                  THEN Raise("KeyError")
             ELSE Return(request_body["instances"][1]["id"])

(***************************************************************************)
(* build_permalink(folio_id)                                               *)
(***************************************************************************)
build_permalink(folio_id) ==
    LET cleaned_folio_id == StrReplace(folio_id, "-", ".")
    IN  UrlHead \o eds_customer_id \o UrlGroup \o eds_group_id
        \o UrlProf \o eds_profile_id \o UrlDb \o eds_catalog_id
        \o UrlScope \o school_code \o UrlEdge \o cleaned_folio_id

\* the two f-strings of main's except clauses
DocNumberError(holding) == MsgNoDocNumber \o holding["Title"]
\* the second message without the doc number
FolioIdError_NoId(holding, doc_number) ==
    MsgNoFolioId \o holding["Title"]

FolioIdError(holding, doc_number) ==
    MsgNoFolioId \o holding["Title"] \o MsgSep \o doc_number

(***************************************************************************)
(* Input data: the rows csv.DictReader yields, one dict per row.           *)
(***************************************************************************)
fieldnames == <<"Title", "URL", "UserDefinedField2", "Publisher">>

Row(title, url, udf2) ==
    [Title |-> title, URL |-> url, UserDefinedField2 |-> udf2,
     Publisher |-> <<"E", "B">>]

TitleA == <<"O", "d", "e">>
TitleB == <<"I", "o">>
UrlBase == <<"h", ":", "/", "/", "x", "?">>
MarkerStem == <<"d", "o", "c", "_", "n", "u", "m", "b", "e", "r">>
OldNote == <<"o", "l", "d">>

UrlPlain == UrlBase \o Marker \o <<"1", "2">>
UrlNoMarker == UrlBase \o <<"i", "d", "=", "1", "2">>
UrlSuffix == UrlBase \o Marker
UrlTwice == UrlBase \o Marker \o <<"1", "&">> \o Marker \o <<"2">>
UrlNear == UrlBase \o MarkerStem \o <<"1", "2">>

Rows ==
    { Row(TitleA, UrlPlain, <<>>),
      Row(TitleB, UrlPlain, OldNote),
      Row(TitleA, UrlNoMarker, OldNote),
      Row(TitleA, UrlTwice, OldNote),
      Row(TitleB, UrlNear, <<>>) }

SeqsUpTo(S, n) == UNION {[1..k -> S] : k \in 0..n}

\* URLs assembled from fragments of the marker
Tokens == {Marker, MarkerStem, <<"=">>, <<"d", "o", "c", "_">>, <<"7">>}

RECURSIVE Flatten(_)
Flatten(ss) == IF ss = <<>> THEN <<>> ELSE Head(ss) \o Flatten(Tail(ss))

TokenUrls == {Flatten(ts) : ts \in SeqsUpTo(Tokens, MaxTokens)}

\* identifiers the lookup service may hand out
IdChars == {"a", "-", "."}
AllIds == SeqsUpTo(IdChars, MaxIdLen)
IdA == <<"a", "-", "b", "-", "-", "c">>
IdB == <<"9", "f">>

Replies ==
    { NetworkDown,
      NotJson,
      Json([errors |-> <<"unauthorized">>]),
      Instances(<<>>),
      Instances(<<[title |-> TitleA]>>),
      Instances(<<Match(IdA)>>),
      Instances(<<Match(IdB), Match(IdA)>>) }

(***************************************************************************)
(* State of a run of main().                                               *)
(***************************************************************************)
VARIABLES
    input,                 \* the rows of config.filename, in file order
    service,               \* the replies the lookup service may give
    pc,                    \* where main() stands
    line,                  \* number of rows the reader has yielded
    holding,               \* the loop variable
    doc_number,            \* the local of the same name
    updated_holding_list,
    error_list,
    out_rows,              \* out_rows[k]: input row of updated_holding_list[k]
    err_rows,              \* err_rows[k]: input row of error_list[k]
    lookup_log,            \* the GET requests issued, with their replies
    output_csv,            \* the file output.csv
    error_log,             \* the file error_log.txt
    fatal                  \* the exception that ended the run, if any

vars == <<input, service, pc, line, holding, doc_number,
          updated_holding_list, error_list, out_rows, err_rows, lookup_log,
          output_csv, error_log, fatal>>

NoHolding == [f \in {} |-> <<>>]
InFlight == [kind |-> "pending", body |-> NoBody]
NoCsv == [written |-> FALSE, header |-> <<>>, rows |-> <<>>]
NoLog == [written |-> FALSE, lines |-> <<>>]

Start ==
    /\ pc = "loop"
    /\ line = 0
    /\ holding = NoHolding
    /\ doc_number = <<>>
    /\ updated_holding_list = <<>>
    /\ error_list = <<>>
    /\ out_rows = <<>>
    /\ err_rows = <<>>
    /\ lookup_log = <<>>
    /\ output_csv = NoCsv
    /\ error_log = NoLog
    /\ fatal = "none"

Init ==
    /\ input \in SeqsUpTo(Rows, MaxRows)
    /\ service = Replies
    /\ Start

\* one row whose URL ranges over the assembled URLs
InitUrls ==
    /\ input \in {<<Row(TitleA, u, OldNote)>> : u \in TokenUrls}
    /\ service = Replies
    /\ Start

\* at most one row, the service may hand out any identifier
InitIds ==
    /\ input \in SeqsUpTo({Row(TitleA, UrlSuffix, OldNote),
                           Row(TitleB, UrlNoMarker, <<>>)}, 1)
    /\ service = Replies \cup {Instances(<<Match(x)>>) : x \in AllIds}
    /\ Start

\* the first except clause skipping the row without logging it
ExtractFails_Silent ==
    /\ pc = "loop"
    /\ line < Len(input)
    /\ LET row == input[line + 1]
           res == get_doc_number(row["URL"])
       IN  /\ res.exc = "IndexError"
           /\ line' = line + 1
           /\ holding' = row
    /\ UNCHANGED <<input, service, pc, doc_number, updated_holding_list,
                   error_list, err_rows, out_rows, lookup_log, output_csv,
                   error_log, fatal>>

(***************************************************************************)
(* The loop body up to the first `continue`: the reader yields the next    *)
(* row and get_doc_number raises IndexError.                               *)
(***************************************************************************)
ExtractFails ==
    /\ pc = "loop"
    /\ line < Len(input)
    /\ LET row == input[line + 1]
           res == get_doc_number(row["URL"])
       IN  /\ res.exc = "IndexError"
           /\ line' = line + 1
           /\ holding' = row
           /\ error_list' = Append(error_list, DocNumberError(row))
           /\ err_rows' = Append(err_rows, line + 1)
    /\ UNCHANGED <<input, service, pc, doc_number, updated_holding_list,
                   out_rows, lookup_log, output_csv, error_log, fatal>>

(***************************************************************************)
(* The reader yields the next row, get_doc_number returns and get_folio_id *)
(* issues the GET; main() then blocks in requests.get.                     *)
(***************************************************************************)
SendLookup ==
    /\ pc = "loop"
    /\ line < Len(input)
    /\ LET row == input[line + 1]
           res == get_doc_number(row["URL"])
       IN  /\ res.exc = "none"
           /\ line' = line + 1
           /\ holding' = row
           /\ doc_number' = res.val
           /\ lookup_log' = Append(lookup_log,
                  [row |-> line + 1, doc_number |-> res.val,
                   reply |-> InFlight])
    /\ pc' = "lookup"
    /\ UNCHANGED <<input, service, updated_holding_list, error_list,
                   out_rows, err_rows, output_csv, error_log, fatal>>

Answered(reply) ==
    [lookup_log EXCEPT ![Len(lookup_log)].reply = reply]

\* the second except clause asking the service once more before giving up
LookupNotFound_Retry ==
    /\ pc = "lookup"
    /\ \E reply \in service :
          /\ get_folio_id(reply).exc = "IndexError"
          /\ IF Cardinality({l \in DOMAIN lookup_log :
                                lookup_log[l].row = line}) < 2
             THEN /\ lookup_log' =
                        Append(Answered(reply),
                               [row |-> line, doc_number |-> doc_number,
                                reply |-> InFlight])
                  /\ pc' = "lookup"
                  /\ UNCHANGED <<error_list, err_rows>>
             ELSE /\ lookup_log' = Answered(reply)
                  /\ error_list' = Append(error_list,
                                          FolioIdError(holding, doc_number))
                  /\ err_rows' = Append(err_rows, line)
                  /\ pc' = "loop"
    /\ UNCHANGED <<input, service, line, holding, doc_number,
                   updated_holding_list, out_rows, output_csv, error_log,
                   fatal>>

(***************************************************************************)
(* The GET is answered and get_folio_id raises IndexError: the second      *)
(* except clause of the loop body.                                         *)
(***************************************************************************)
LookupNotFound ==
    /\ pc = "lookup"
    /\ \E reply \in service :
          /\ get_folio_id(reply).exc = "IndexError"
          /\ lookup_log' = Answered(reply)
          /\ error_list' = Append(error_list,
                                  FolioIdError(holding, doc_number))
          /\ err_rows' = Append(err_rows, line)
    /\ pc' = "loop"
    /\ UNCHANGED <<input, service, line, holding, doc_number,
                   updated_holding_list, out_rows, output_csv, error_log,
                   fatal>>

\* the rewritten row put at the front: insert(0, holding)
Emit_Prepend ==
    /\ pc = "lookup"
    /\ \E reply \in service :
          LET res == get_folio_id(reply)
              moved == [holding EXCEPT !["UserDefinedField2"] = holding["URL"]]
              updated == [moved EXCEPT !["URL"] = build_permalink(res.val)]
          IN  /\ res.exc = "none"
              /\ lookup_log' = Answered(reply)
              /\ holding' = updated
              /\ updated_holding_list' = <<updated>> \o updated_holding_list
              /\ out_rows' = <<line>> \o out_rows
    /\ pc' = "loop"
    /\ UNCHANGED <<input, service, line, doc_number, error_list, err_rows,
                   output_csv, error_log, fatal>>

(***************************************************************************)
(* The GET is answered, get_folio_id returns, and the row is rewritten and *)
(* appended to updated_holding_list.                                       *)
(***************************************************************************)
Emit ==
    /\ pc = "lookup"
    /\ \E reply \in service :
          LET res == get_folio_id(reply)
              moved == [holding EXCEPT !["UserDefinedField2"] = holding["URL"]]
              updated == [moved EXCEPT !["URL"] = build_permalink(res.val)]
          IN  /\ res.exc = "none"
              /\ lookup_log' = Answered(reply)
              /\ holding' = updated
              /\ updated_holding_list' = Append(updated_holding_list, updated)
              /\ out_rows' = Append(out_rows, line)
    /\ pc' = "loop"
    /\ UNCHANGED <<input, service, line, doc_number, error_list, err_rows,
                   output_csv, error_log, fatal>>

\* the files written in a `finally`: a fatal error still reaches the writes
LookupFatal_Flush ==
    /\ pc = "lookup"
    /\ \E reply \in service :
          LET res == get_folio_id(reply)
          IN  /\ res.exc \notin {"none", "IndexError"}
              /\ lookup_log' = Answered(reply)
              /\ fatal' = res.exc
    /\ pc' = "write_output"
    /\ UNCHANGED <<input, service, line, holding, doc_number,
                   updated_holding_list, error_list, out_rows, err_rows,
                   output_csv, error_log>>

(***************************************************************************)
(* get_folio_id raises anything but IndexError: no except clause matches   *)
(* and the exception leaves main().                                        *)
(***************************************************************************)
LookupFatal ==
    /\ pc = "lookup"
    /\ \E reply \in service :
          LET res == get_folio_id(reply)
          IN  /\ res.exc \notin {"none", "IndexError"}
              /\ lookup_log' = Answered(reply)
              /\ fatal' = res.exc
    /\ pc' = "aborted"
    /\ UNCHANGED <<input, service, line, holding, doc_number,
                   updated_holding_list, error_list, out_rows, err_rows,
                   output_csv, error_log>>

(***************************************************************************)
(* The reader is exhausted: the loop and the `with` block end.             *)
(***************************************************************************)
EndOfInput ==
    /\ pc = "loop"
    /\ line = Len(input)
    /\ pc' = "write_output"
    /\ UNCHANGED <<input, service, line, holding, doc_number,
                   updated_holding_list, error_list, out_rows, err_rows,
                   lookup_log, output_csv, error_log, fatal>>

(***************************************************************************)
(* output.csv: header, then the rows of updated_holding_list.              *)
(***************************************************************************)
WriteOutput ==
    /\ pc = "write_output"
    /\ output_csv' = [written |-> TRUE, header |-> fieldnames,
                      rows |-> updated_holding_list]
    /\ pc' = "write_errors"
    /\ UNCHANGED <<input, service, line, holding, doc_number,
                   updated_holding_list, error_list, out_rows, err_rows,
                   lookup_log, error_log, fatal>>

(***************************************************************************)
(* error_log.txt: one line per entry of error_list.                        *)
(***************************************************************************)
WriteErrorLog ==
    /\ pc = "write_errors"
    /\ error_log' = [written |-> TRUE,
                     lines |-> [k \in 1..Len(error_list) |->
                                   error_list[k] \o <<"\n">>]]
    /\ pc' = "done"
    /\ UNCHANGED <<input, service, line, holding, doc_number,
                   updated_holding_list, error_list, out_rows, err_rows,
                   lookup_log, output_csv, fatal>>

(***************************************************************************)
(* open() of an output file raises OSError.                                *)
(***************************************************************************)
WriteFails ==
    /\ pc \in {"write_output", "write_errors"}
    /\ fatal' = "OSError"
    /\ pc' = "aborted"
    /\ UNCHANGED <<input, service, line, holding, doc_number,
                   updated_holding_list, error_list, out_rows, err_rows,
                   lookup_log, output_csv, error_log>>

Next ==
    \/ ExtractFails
    \/ SendLookup
    \/ LookupNotFound
    \/ Emit
    \/ LookupFatal
    \/ EndOfInput
    \/ WriteOutput
    \/ WriteErrorLog
    \/ WriteFails

Spec == Init /\ [][Next]_vars
SpecUrls == InitUrls /\ [][Next]_vars
SpecIds == InitIds /\ [][Next]_vars

(***************************************************************************)
(* Vocabulary of the properties, stated without the operators above.       *)
(***************************************************************************)
Range(f) == {f[k] : k \in DOMAIN f}
Last(s) == s[Len(s)]
Count(s, x) == Cardinality({k \in DOMAIN s : s[k] = x})
IsPrefix(a, b) == Len(a) <= Len(b) /\ SubSeq(b, 1, Len(a)) = a
Increasing(s) == \A j, k \in DOMAIN s : j < k => s[j] < s[k]

\* the marker occurs in s at 1-based position k
MarkerAt(s, k) ==
    /\ k + Len(Marker) - 1 <= Len(s)
    /\ SubSeq(s, k, k + Len(Marker) - 1) = Marker
Occurrences(s) == {k \in 1..Len(s) : MarkerAt(s, k)}
HasMarker(s) == Occurrences(s) # {}

Resolved(r) == r \in Range(out_rows) \cup Range(err_rows)
PostLoop == pc \in {"write_output", "write_errors", "done"}
LogOf(r) == {k \in DOMAIN lookup_log : lookup_log[k].row = r}

\* shapes of a reply
Decoded(reply) == reply.kind = "json"
LacksInstances(reply) ==
    Decoded(reply) /\ "instances" \notin DOMAIN reply.body
EmptyInstances(reply) ==
    /\ Decoded(reply)
    /\ "instances" \in DOMAIN reply.body
    /\ reply.body["instances"] = <<>>
FirstHasId(reply) ==
    /\ Decoded(reply)
    /\ "instances" \in DOMAIN reply.body
    /\ reply.body["instances"] # <<>>
    /\ "id" \in DOMAIN Head(reply.body["instances"])
FirstId(reply) == Head(reply.body["instances"])["id"]

\* entry k of error_list is one of the two messages about row r
ErrorIsAbout(k, r) ==
    \/ error_list[k] = MsgNoDocNumber \o input[r]["Title"]
    \/ IsPrefix(MsgNoFolioId \o input[r]["Title"] \o MsgSep, error_list[k])

\* entry k of updated_holding_list is the rewritten row r
OutputIsFrom(k, r) ==
    /\ updated_holding_list[k]["Title"] = input[r]["Title"]
    /\ updated_holding_list[k]["UserDefinedField2"] = input[r]["URL"]

(***************************************************************************)
(* C1: once the loop is over, every input row has exactly one outcome:     *)
(* it is in updated_holding_list exactly once and has no error entry, or   *)
(* it is absent from updated_holding_list and has exactly one entry of     *)
(* error_list; so the two lengths add up to the number of input rows.      *)
(***************************************************************************)
C1_OneOutcomePerRow ==
    PostLoop =>
       /\ \A r \in 1..Len(input) :
             \/ Count(out_rows, r) = 1 /\ Count(err_rows, r) = 0
             \/ Count(out_rows, r) = 0 /\ Count(err_rows, r) = 1
       /\ \A k \in DOMAIN updated_holding_list : OutputIsFrom(k, out_rows[k])
       /\ \A k \in DOMAIN error_list : ErrorIsAbout(k, err_rows[k])
       /\ Len(out_rows) = Len(updated_holding_list)
       /\ Len(err_rows) = Len(error_list)
       /\ Len(updated_holding_list) + Len(error_list) = Len(input)

C1_Witness ==
    /\ pc = "done"
    /\ Len(input) = 3
    /\ Len(updated_holding_list) = 1
    /\ Len(error_list) = 2
    /\ \E k \in DOMAIN error_list : IsPrefix(MsgNoDocNumber, error_list[k])
    /\ \E k \in DOMAIN error_list : IsPrefix(MsgNoFolioId, error_list[k])

(***************************************************************************)
(* C2: a row whose URL lacks "doc_number=" is handled in one step that     *)
(* appends exactly "Could not find doc_number for {Title}" to error_list,  *)
(* leaves updated_holding_list alone, issues no lookup, leaves the row's   *)
(* fields as read and returns to the loop head without aborting; and no    *)
(* such row is ever in updated_holding_list or in the lookup log.          *)
(***************************************************************************)
C2_NoMarkerStep ==
    (pc = "loop" /\ line < Len(input) /\ ~HasMarker(input[line + 1]["URL"]))
    => /\ line' = line + 1
       /\ error_list' = Append(error_list,
                               MsgNoDocNumber \o input[line + 1]["Title"])
       /\ updated_holding_list' = updated_holding_list
       /\ lookup_log' = lookup_log
       /\ holding' = input[line + 1]
       /\ pc' = "loop"
       /\ fatal' = "none"

C2_NoMarkerNeverOut ==
    \A r \in 1..Len(input) :
       ~HasMarker(input[r]["URL"]) => r \notin Range(out_rows) /\ LogOf(r) = {}

C2_NoMarkerRow == [][C2_NoMarkerStep]_vars /\ []C2_NoMarkerNeverOut

C2_Witness ==
    /\ pc = "lookup"
    /\ line = 2
    /\ input[1]["URL"] = UrlNear
    /\ err_rows = <<1>>
    /\ error_list = <<MsgNoDocNumber \o input[1]["Title"]>>
    /\ Len(lookup_log) = 1

(***************************************************************************)
(* C3: when the reply to a row's lookup has an empty "instances" list, the *)
(* step appends "Could not find FOLIO ID for {Title} - {doc number}",      *)
(* with the doc number that follows the first marker of the row's URL,     *)
(* to error_list, leaves updated_holding_list and the row's fields alone   *)
(* and returns to the loop head.                                           *)
(***************************************************************************)
AfterFirstMarker(url) ==
    LET first == CHOOSE k \in Occurrences(url) :
                    \A j \in Occurrences(url) : k <= j
    IN  SubSeq(url, first + Len(Marker), Len(url))

C3_EmptyListStep ==
    (pc = "lookup" /\ EmptyInstances(Last(lookup_log').reply))
    => /\ HasMarker(input[line]["URL"])
       /\ error_list' =
             Append(error_list,
                    MsgNoFolioId \o input[line]["Title"] \o MsgSep
                    \o AfterFirstMarker(input[line]["URL"]))
       /\ updated_holding_list' = updated_holding_list
       /\ holding' = input[line]
       /\ line' = line
       /\ pc' = "loop"
       /\ fatal' = "none"

C3_EmptyListRow == [][C3_EmptyListStep]_vars

C3_Witness ==
    /\ pc = "loop"
    /\ line = 1
    /\ Len(input) > 1
    /\ input[1]["URL"] = UrlTwice
    /\ EmptyInstances(Last(lookup_log).reply)
    /\ err_rows = <<1>>
    /\ out_rows = <<>>

(***************************************************************************)
(* C4, as claimed: a reply without an "instances" field is handled like an *)
(* empty list, i.e. the row gets a "Could not find FOLIO ID" entry in      *)
(* error_list and the run is not aborted.                                  *)
(***************************************************************************)
C4_AbsentListRecoverable ==
    (lookup_log # <<>> /\ LacksInstances(Last(lookup_log).reply))
    => /\ pc # "aborted"
       /\ Last(lookup_log).row \in Range(err_rows)

(***************************************************************************)
(* C4, amended: a reply without an "instances" field makes get_folio_id    *)
(* raise KeyError, which no except clause of main() catches: the run       *)
(* aborts at that row, the row gets neither an error entry nor an output   *)
(* row, and neither output file is written.                                *)
(***************************************************************************)
C4_AbsentListAborts ==
    (lookup_log # <<>> /\ LacksInstances(Last(lookup_log).reply))
    => /\ pc = "aborted"
       /\ fatal = "KeyError"
       /\ Last(lookup_log).row = line
       /\ ~Resolved(line)
       /\ Len(error_list) = Len(err_rows)
       /\ Len(updated_holding_list) = Len(out_rows)
       /\ ~output_csv.written
       /\ ~error_log.written

C4_Witness ==
    /\ pc = "aborted"
    /\ line = 2
    /\ Len(input) = 3
    /\ Resolved(1)
    /\ LacksInstances(Last(lookup_log).reply)

(***************************************************************************)
(* C5: every row of updated_holding_list comes from an input row whose URL *)
(* has the marker and whose lookup returned a non-empty list; its          *)
(* UserDefinedField2 is the input row's URL, its URL is the permalink of   *)
(* the id of the first match, and all other fields are as read.  A row     *)
(* whose lookup returned a list whose first match has an id is emitted.    *)
(***************************************************************************)
C5_EmittedRow ==
    /\ \A k \in DOMAIN updated_holding_list :
          LET r == out_rows[k]
              old == input[r]
              new == updated_holding_list[k]
          IN  /\ HasMarker(old["URL"])
              /\ Cardinality(LogOf(r)) = 1
              /\ \A l \in LogOf(r) :
                    /\ FirstHasId(lookup_log[l].reply)
                    /\ new["URL"] =
                          build_permalink(FirstId(lookup_log[l].reply))
              /\ new["UserDefinedField2"] = old["URL"]
              /\ DOMAIN new = DOMAIN old
              /\ \A f \in DOMAIN old \ {"URL", "UserDefinedField2"} :
                    new[f] = old[f]
    /\ \A l \in DOMAIN lookup_log :
          FirstHasId(lookup_log[l].reply) =>
             lookup_log[l].row \in Range(out_rows)

C5_Witness ==
    /\ Len(updated_holding_list) = 1
    /\ input[out_rows[1]]["UserDefinedField2"] = OldNote
    /\ Len(Last(lookup_log).reply.body["instances"]) = 2
    /\ updated_holding_list[1]["UserDefinedField2"] = UrlTwice
    /\ pc = "loop"

(***************************************************************************)
(* C6: the URL build_permalink returns is the fixed prefix, with custid,   *)
(* groupid, profid, db and school code filled in and ending in             *)
(* "fs00001006.", followed by as many characters as the identifier has:    *)
(* a period where the identifier has a hyphen, the identifier's own        *)
(* character elsewhere.                                                    *)
(***************************************************************************)
PermalinkPrefix ==
    UrlHead \o eds_customer_id \o UrlGroup \o eds_group_id \o UrlProf
    \o eds_profile_id \o UrlDb \o eds_catalog_id \o UrlScope \o school_code
    \o UrlEdge

EdgeTail == <<"f", "s", "0", "0", "0", "0", "1", "0", "0", "6", ".">>

C6_PermalinkShape ==
    \A k \in DOMAIN updated_holding_list :
       \A l \in LogOf(out_rows[k]) :
          LET id == FirstId(lookup_log[l].reply)
              url == updated_holding_list[k]["URL"]
              n == Len(PermalinkPrefix)
          IN  /\ Len(url) = n + Len(id)
              /\ SubSeq(url, 1, n) = PermalinkPrefix
              /\ SubSeq(url, n - Len(EdgeTail) + 1, n) = EdgeTail
              /\ \A j \in 1..Len(id) :
                    url[n + j] = IF id[j] = "-" THEN "." ELSE id[j]

C6_Witness ==
    /\ Len(updated_holding_list) = 1
    /\ FirstId(Last(lookup_log).reply) = <<"-", "a", "-">>

(***************************************************************************)
(* C7: updated_holding_list and error_list only grow by appending, and     *)
(* both are in input order: entries of rows i < j that are both emitted    *)
(* (both failed) stand in that order; the files are written in list order. *)
(***************************************************************************)
C7_AppendOnly ==
    /\ IsPrefix(updated_holding_list, updated_holding_list')
    /\ IsPrefix(error_list, error_list')
    /\ IsPrefix(out_rows, out_rows')
    /\ IsPrefix(err_rows, err_rows')

C7_InInputOrder ==
    /\ Increasing(out_rows)
    /\ Increasing(err_rows)
    /\ Len(out_rows) = Len(updated_holding_list)
    /\ Len(err_rows) = Len(error_list)
    /\ \A k \in DOMAIN updated_holding_list : OutputIsFrom(k, out_rows[k])
    /\ \A k \in DOMAIN error_list : ErrorIsAbout(k, err_rows[k])
    /\ output_csv.written => output_csv.rows = updated_holding_list
    /\ error_log.written =>
          /\ Len(error_log.lines) = Len(error_list)
          /\ \A k \in DOMAIN error_list :
                error_log.lines[k] = error_list[k] \o <<"\n">>

C7_EncounterOrder == [][C7_AppendOnly]_vars /\ []C7_InInputOrder

C7_Witness ==
    /\ pc = "done"
    /\ out_rows = <<1, 3>>
    /\ err_rows = <<2>>
    /\ input[1]["Title"] # input[3]["Title"]
    /\ output_csv.rows = updated_holding_list

(***************************************************************************)
(* C8: a reply that makes get_folio_id fail otherwise than by IndexError   *)
(* aborts the run; a run aborted while a row is being processed has        *)
(* written neither output.csv nor error_log.txt; and a file is written     *)
(* only when every input row has been emitted or logged.                   *)
(***************************************************************************)
FatalReply(reply) ==
    \/ reply.kind = "ConnectionError"
    \/ reply.kind = "text"
    \/ LacksInstances(reply)
    \/ /\ Decoded(reply)
       /\ "instances" \in DOMAIN reply.body
       /\ reply.body["instances"] # <<>>
       /\ "id" \notin DOMAIN Head(reply.body["instances"])

C8_FatalStep ==
    (pc = "lookup" /\ FatalReply(Last(lookup_log').reply))
    => /\ pc' = "aborted"
       /\ fatal' # "none"
       /\ updated_holding_list' = updated_holding_list
       /\ error_list' = error_list

C8_NoFileBeforeEnd ==
    /\ (pc = "aborted" /\ line >= 1 /\ ~Resolved(line))
          => ~output_csv.written /\ ~error_log.written
    /\ (output_csv.written \/ error_log.written)
          => /\ line = Len(input)
             /\ \A r \in 1..Len(input) : Resolved(r)
             /\ pc \notin {"loop", "lookup"}
    /\ pc = "aborted" => fatal # "none"

C8_FatalAborts == [][C8_FatalStep]_vars /\ []C8_NoFileBeforeEnd

C8_Witness ==
    /\ pc = "aborted"
    /\ fatal = "ConnectionError"
    /\ line = 3
    /\ Len(updated_holding_list) = 1
    /\ Len(error_list) = 1
    /\ ~output_csv.written
    /\ ~error_log.written

C9_WitnessEmpty ==
    /\ pc = "lookup"
    /\ input[1]["URL"] = <<"7">> \o Marker
    /\ lookup_log[1].doc_number = <<>>

(***************************************************************************)
(* C10: exactly one lookup is issued for each row read so far whose URL    *)
(* has the marker, in row order and never twice for a row even when two    *)
(* rows carry the same doc number; at most one lookup is unanswered, and   *)
(* only while main() waits for it; every row before the current one has    *)
(* been emitted or logged.                                                 *)
(***************************************************************************)
Unanswered == {l \in DOMAIN lookup_log : lookup_log[l].reply = InFlight}

C10_Sequential ==
    /\ Len(lookup_log) =
          Cardinality({r \in 1..line : HasMarker(input[r]["URL"])})
    /\ \A j, k \in DOMAIN lookup_log :
          j < k => lookup_log[j].row < lookup_log[k].row
    /\ Cardinality(Unanswered) <= 1
    /\ Unanswered # {} <=> pc = "lookup"
    /\ \A l \in Unanswered : l = Len(lookup_log) /\ lookup_log[l].row = line
    /\ \A r \in 1..(line - 1) : Resolved(r)
    /\ pc \in {"loop", "write_output", "write_errors", "done"}
          => \A r \in 1..line : Resolved(r)
    /\ PostLoop => line = Len(input)

C10_Witness ==
    /\ pc = "done"
    /\ Len(lookup_log) = 2
    /\ lookup_log[1].doc_number = lookup_log[2].doc_number
    /\ EmptyInstances(lookup_log[1].reply)
    /\ FirstHasId(lookup_log[2].reply)
    /\ Len(input) = 3

====
